---- MODULE Spec2Model ----
(***************************************************************************)
(* Model of the Bitcoin wire-format codec of src/lib.rs: CompactSize,      *)
(* Txid (hex text form), OutPoint, Script, TransactionInput and            *)
(* BitcoinTransaction, with their to_bytes / from_bytes operations.        *)
(*                                                                         *)
(* Representation of the machine integers.  TLC's integers are 32-bit, so  *)
(* the u32 and u64 values of the program are kept as little-endian         *)
(* sequences of 16-bit limbs:                                              *)
(*     u16  a number 0..65535                                              *)
(*     u32  <<l0, l1>>          = l0 + l1 * 2^16                           *)
(*     u64  <<l0, l1, l2, l3>>  = l0 + l1 * 2^16 + l2 * 2^32 + l3 * 2^48   *)
(* usize is 64 bits wide (a 64-bit target) and is kept like a u64 where    *)
(* the code adds to it, and as a plain number where it is a buffer length  *)
(* or an offset into a buffer.  A byte is a number 0..255 and a byte       *)
(* buffer (&[u8], Vec<u8>) is a sequence of bytes; the Rust index i is the *)
(* TLA+ index i + 1.                                                       *)
(***************************************************************************)
EXTENDS Integers, Sequences, FiniteSets

VARIABLES
    kind,             \* the type the caller is working with
    val,              \* <<>> or <<v>>: the value the caller constructed
    buf,              \* the byte buffer handed to from_bytes
    text,             \* the text form of a Txid (a sequence of characters)
    res,              \* <<>> or <<r>>: what the last from_bytes / deserialize returned
    overflow_checks   \* the build profile: TRUE for debug (dev), FALSE for release

vars == <<kind, val, buf, text, res, overflow_checks>>

----------------------------------------------------------------------------
(* Bounds of the model *)

\* bytes a caller appends after an encoded value before decoding it
MaxExtra == 2
\* longest script body enumerated byte pattern by byte pattern
MaxScriptLen == 2
\* most inputs of an enumerated transaction
MaxInputs == 2
\* longest buffer of which every proper prefix is tried
MaxTruncLen == 96
\* longest buffer received from outside, filled with a byte pattern
MaxRecvLen == 60
\* characters dropped from / appended to the text form of a Txid
MaxTextEdit == 2

----------------------------------------------------------------------------
(* Results: Rust's Result<(T, usize), BitcoinError>, and a panic *)

InsufficientBytes == "InsufficientBytes"
InvalidFormat == "InvalidFormat"

Ok(v, n) == [tag |-> "Ok", value |-> v, consumed |-> n]
Err(e) == [tag |-> "Err", error |-> e]
Panic(m) == [tag |-> "Panic", message |-> m]

----------------------------------------------------------------------------
(* Machine integers *)

Pow16 == 256 * 256

\* n as u64, for a u8, a u16 or a small usize n
u64_from(n) == <<n % Pow16, (n \div Pow16) % Pow16, 0, 0>>

\* x as u64 for a u32 x
u32_as_u64(x) == <<x[1], x[2], 0, 0>>

\* x as u16 and x as u32 for a u64 x: the low bits
u64_as_u16(x) == x[1]
u64_as_u32(x) == <<x[1], x[2]>>

\* a < b on u64 (or usize) limbs
u64_lt(a, b) ==
    \/ a[4] < b[4]
    \/ a[4] = b[4] /\ a[3] < b[3]
    \/ a[4] = b[4] /\ a[3] = b[3] /\ a[2] < b[2]
    \/ a[4] = b[4] /\ a[3] = b[3] /\ a[2] = b[2] /\ a[1] < b[1]

u64_le(a, b) == a = b \/ u64_lt(a, b)

\* usize addition a + b of a small usize a and a 64-bit b: the wrapped sum
\* and whether it overflowed 64 bits
usize_add(a, b) ==
    LET s1 == b[1] + a
        s2 == b[2] + (s1 \div Pow16)
        s3 == b[3] + (s2 \div Pow16)
        s4 == b[4] + (s3 \div Pow16)
    IN  [sum |-> <<s1 % Pow16, s2 % Pow16, s3 % Pow16, s4 % Pow16>>,
         overflow |-> s4 \div Pow16 > 0]

\* the number a usize stands for, when it is known to be at most a buffer length
usize_nat(x) == x[1] + x[2] * Pow16

u16_to_le_bytes(x) == <<x % 256, x \div 256>>
u32_to_le_bytes(x) == u16_to_le_bytes(x[1]) \o u16_to_le_bytes(x[2])
u64_to_le_bytes(x) ==
    u16_to_le_bytes(x[1]) \o u16_to_le_bytes(x[2])
        \o u16_to_le_bytes(x[3]) \o u16_to_le_bytes(x[4])

u16_from_le_bytes(b) == b[1] + 256 * b[2]
u32_from_le_bytes(b) == <<b[1] + 256 * b[2], b[3] + 256 * b[4]>>
u64_from_le_bytes(b) ==
    <<b[1] + 256 * b[2], b[3] + 256 * b[4], b[5] + 256 * b[6], b[7] + 256 * b[8]>>

\* bytes[from..] and bytes[from..to] with Rust's 0-based, end-exclusive indices
SliceFrom(bytes, from) == SubSeq(bytes, from + 1, Len(bytes))
Slice(bytes, from, to) == SubSeq(bytes, from + 1, to)

----------------------------------------------------------------------------
(* CompactSize *)

CompactSize_new(value) == [value |-> value]

\* CompactSize_to_bytes with the first range one too wide (0..=253)
CompactSize_to_bytes_wide_first_range(self) ==
    LET v == self.value IN
    IF v[4] = 0 /\ v[3] = 0 /\ v[2] = 0 /\ v[1] <= 253
    THEN <<v[1] % 256>>
    ELSE IF v[4] = 0 /\ v[3] = 0 /\ v[2] = 0
    THEN <<253>> \o u16_to_le_bytes(u64_as_u16(v))
    ELSE IF v[4] = 0 /\ v[3] = 0
    THEN <<254>> \o u32_to_le_bytes(u64_as_u32(v))
    ELSE <<255>> \o u64_to_le_bytes(v)

\* match self.value { 0..=252, 253..=65535, 65536..=4294967295, _ }
CompactSize_to_bytes(self) ==
    LET v == self.value IN
    IF v[4] = 0 /\ v[3] = 0 /\ v[2] = 0 /\ v[1] <= 252
    THEN <<v[1] % 256>>
    ELSE IF v[4] = 0 /\ v[3] = 0 /\ v[2] = 0
    THEN <<253>> \o u16_to_le_bytes(u64_as_u16(v))
    ELSE IF v[4] = 0 /\ v[3] = 0
    THEN <<254>> \o u32_to_le_bytes(u64_as_u32(v))
    ELSE <<255>> \o u64_to_le_bytes(v)

\* CompactSize_from_bytes that rejects a 0xFD form of a value below 253
CompactSize_from_bytes_strict(bytes) ==
    IF Len(bytes) = 0 THEN Err(InsufficientBytes)
    ELSE IF bytes[1] <= 252 THEN Ok(CompactSize_new(u64_from(bytes[1])), 1)
    ELSE IF bytes[1] = 253
    THEN IF Len(bytes) < 3 THEN Panic("index out of bounds")
         ELSE IF u16_from_le_bytes(<<bytes[2], bytes[3]>>) < 253 THEN Err(InvalidFormat)
         ELSE Ok(CompactSize_new(u64_from(u16_from_le_bytes(<<bytes[2], bytes[3]>>))), 3)
    ELSE IF bytes[1] = 254
    THEN IF Len(bytes) < 5 THEN Panic("index out of bounds")
         ELSE Ok(CompactSize_new(u32_as_u64(u32_from_le_bytes(
                    <<bytes[2], bytes[3], bytes[4], bytes[5]>>))), 5)
    ELSE IF Len(bytes) < 9 THEN Panic("index out of bounds")
         ELSE Ok(CompactSize_new(u64_from_le_bytes(
                    <<bytes[2], bytes[3], bytes[4], bytes[5],
                      bytes[6], bytes[7], bytes[8], bytes[9]>>)), 9)

\* The width bytes are indexed without a length check: bytes[i] past the end
\* of the slice panics.
CompactSize_from_bytes(bytes) ==
    IF Len(bytes) = 0 THEN Err(InsufficientBytes)
    ELSE IF bytes[1] <= 252 THEN Ok(CompactSize_new(u64_from(bytes[1])), 1)
    ELSE IF bytes[1] = 253
    THEN IF Len(bytes) < 3 THEN Panic("index out of bounds")
         ELSE Ok(CompactSize_new(u64_from(u16_from_le_bytes(<<bytes[2], bytes[3]>>))), 3)
    ELSE IF bytes[1] = 254
    THEN IF Len(bytes) < 5 THEN Panic("index out of bounds")
         ELSE Ok(CompactSize_new(u32_as_u64(u32_from_le_bytes(
                    <<bytes[2], bytes[3], bytes[4], bytes[5]>>))), 5)
    ELSE IF Len(bytes) < 9 THEN Panic("index out of bounds")
         ELSE Ok(CompactSize_new(u64_from_le_bytes(
                    <<bytes[2], bytes[3], bytes[4], bytes[5],
                      bytes[6], bytes[7], bytes[8], bytes[9]>>)), 9)

----------------------------------------------------------------------------
(* Txid and its text form.  hex::encode and hex::decode are modelled by    *)
(* what the hex crate does; a character is a one-character string.         *)

HexDigits == <<"0", "1", "2", "3", "4", "5", "6", "7",
               "8", "9", "a", "b", "c", "d", "e", "f">>

UpperHexDigits == <<"0", "1", "2", "3", "4", "5", "6", "7",
                    "8", "9", "A", "B", "C", "D", "E", "F">>

IsHexChar(c) == \E k \in 1..16 : HexDigits[k] = c \/ UpperHexDigits[k] = c

HexVal(c) == (CHOOSE k \in 1..16 : HexDigits[k] = c \/ UpperHexDigits[k] = c) - 1

\* hex::encode: two lowercase digits per byte, high nibble first
hex_encode(bytes) ==
    [i \in 1..(2 * Len(bytes)) |->
        LET b == bytes[(i + 1) \div 2] IN
        IF i % 2 = 1 THEN HexDigits[(b \div 16) + 1] ELSE HexDigits[(b % 16) + 1]]

\* hex::decode: an odd length is rejected first, then any character that is
\* not a hexadecimal digit of either case
hex_decode(str) ==
    IF Len(str) % 2 # 0 THEN [tag |-> "Err", error |-> "OddLength"]
    ELSE IF \E i \in 1..Len(str) : ~IsHexChar(str[i])
    THEN [tag |-> "Err", error |-> "InvalidHexCharacter"]
    ELSE [tag |-> "Ok",
          value |-> [i \in 1..(Len(str) \div 2) |->
                        16 * HexVal(str[2 * i - 1]) + HexVal(str[2 * i])]]

\* serde::de::Error::custom(msg): an error of the deserializer's own type
Custom(msg) == [tag |-> "Err", error |-> "Custom", message |-> msg]

\* impl Serialize for Txid: the string handed to serializer.serialize_str
Txid_serialize(self) == hex_encode(self)

\* Txid_deserialize without the check of the decoded length
Txid_deserialize_any_length(hex_str) ==
    LET bytes == hex_decode(hex_str) IN
    IF bytes.tag = "Err" THEN Custom(bytes.error)
    ELSE [tag |-> "Ok", value |-> bytes.value]

\* impl Deserialize for Txid, given the string the deserializer yields
Txid_deserialize(hex_str) ==
    LET bytes == hex_decode(hex_str) IN
    IF bytes.tag = "Err" THEN Custom(bytes.error)
    ELSE IF Len(bytes.value) # 32 THEN Custom("txid must be 32 bytes")
    ELSE [tag |-> "Ok", value |-> bytes.value]

----------------------------------------------------------------------------
(* OutPoint *)

OutPoint_new(txid, vout) == [txid |-> txid, vout |-> vout]

OutPoint_to_bytes(self) == self.txid \o u32_to_le_bytes(self.vout)

\* OutPoint_from_bytes with the length check off by one (<= 36)
OutPoint_from_bytes_off_by_one(bytes) ==
    IF Len(bytes) <= 36 THEN Err(InsufficientBytes)
    ELSE LET txid == Slice(bytes, 0, 32)
             vout == u32_from_le_bytes(Slice(bytes, 32, 36))
         IN  Ok(OutPoint_new(txid, vout), 36)

OutPoint_from_bytes(bytes) ==
    IF Len(bytes) < 36 THEN Err(InsufficientBytes)
    ELSE LET txid == Slice(bytes, 0, 32)
             vout == u32_from_le_bytes(Slice(bytes, 32, 36))
         IN  Ok(OutPoint_new(txid, vout), 36)

----------------------------------------------------------------------------
(* The CompactSize helpers of Script and BitcoinTransaction *)

decode_compact_size(bytes) ==
    IF Len(bytes) = 0 THEN Err(InsufficientBytes)
    ELSE IF bytes[1] <= 252 THEN Ok(u64_from(bytes[1]), 1)
    ELSE IF bytes[1] = 253
    THEN IF Len(bytes) < 3 THEN Err(InsufficientBytes)
         ELSE Ok(u64_from(u16_from_le_bytes(Slice(bytes, 1, 3))), 3)
    ELSE IF bytes[1] = 254
    THEN IF Len(bytes) < 5 THEN Err(InsufficientBytes)
         ELSE Ok(u32_as_u64(u32_from_le_bytes(Slice(bytes, 1, 5))), 5)
    ELSE IF Len(bytes) < 9 THEN Err(InsufficientBytes)
         ELSE Ok(u64_from_le_bytes(Slice(bytes, 1, 9)), 9)

\* match n { 0..=0xFC, 0xFD..=0xFFFF, 0x10000..=0xFFFF_FFFF, _ }
encode_compact_size(n) ==
    IF n[4] = 0 /\ n[3] = 0 /\ n[2] = 0 /\ n[1] <= 252
    THEN <<n[1] % 256>>
    ELSE IF n[4] = 0 /\ n[3] = 0 /\ n[2] = 0
    THEN <<253>> \o u16_to_le_bytes(u64_as_u16(n))
    ELSE IF n[4] = 0 /\ n[3] = 0
    THEN <<254>> \o u32_to_le_bytes(u64_as_u32(n))
    ELSE <<255>> \o u64_to_le_bytes(n)

----------------------------------------------------------------------------
(* Script *)

Script_new(bytes) == [bytes |-> bytes]

Script_to_bytes(self) == encode_compact_size(u64_from(Len(self.bytes))) \o self.bytes

\* Script_from_bytes that takes every byte after the prefix as the body
Script_from_bytes_greedy(bytes, checks) ==
    LET d == decode_compact_size(bytes) IN
    IF d.tag = "Err" THEN d
    ELSE
    LET len == d.value
        prefix_len == d.consumed
        add == usize_add(prefix_len, len)
        total_len == add.sum
    IN  IF add.overflow /\ checks THEN Panic("attempt to add with overflow")
        ELSE IF u64_lt(u64_from(Len(bytes)), total_len) THEN Err(InsufficientBytes)
        ELSE IF usize_nat(total_len) < prefix_len
        THEN Panic("slice index starts after it ends")
        ELSE Ok(Script_new(SliceFrom(bytes, prefix_len)), Len(bytes))

\* total_len = prefix_len + len as usize is a usize addition: with overflow
\* checks (debug) an overflow panics, without them (release) it wraps, and
\* bytes[prefix_len..total_len] then panics when total_len < prefix_len.
Script_from_bytes(bytes, checks) ==
    LET d == decode_compact_size(bytes) IN
    IF d.tag = "Err" THEN d
    ELSE
    LET len == d.value
        prefix_len == d.consumed
        add == usize_add(prefix_len, len)
        total_len == add.sum
    IN  IF add.overflow /\ checks THEN Panic("attempt to add with overflow")
        ELSE IF u64_lt(u64_from(Len(bytes)), total_len) THEN Err(InsufficientBytes)
        ELSE IF usize_nat(total_len) < prefix_len
        THEN Panic("slice index starts after it ends")
        ELSE Ok(Script_new(Slice(bytes, prefix_len, usize_nat(total_len))),
                usize_nat(total_len))

----------------------------------------------------------------------------
(* TransactionInput *)

TransactionInput_new(previous_output, script_sig, sequence) ==
    [previous_output |-> previous_output,
     script_sig |-> script_sig,
     sequence |-> sequence]

TransactionInput_to_bytes(self) ==
    OutPoint_to_bytes(self.previous_output)
        \o Script_to_bytes(self.script_sig)
        \o u32_to_le_bytes(self.sequence)

TransactionInput_from_bytes(bytes, checks) ==
    LET o == OutPoint_from_bytes(bytes) IN
    IF o.tag # "Ok" THEN o
    ELSE
    LET outpoint_len == o.consumed
        s == Script_from_bytes(SliceFrom(bytes, outpoint_len), checks)
    IN  IF s.tag # "Ok" THEN s
        ELSE
        LET seq_start == outpoint_len + s.consumed IN
        IF Len(bytes) < seq_start + 4 THEN Err(InsufficientBytes)
        ELSE Ok(TransactionInput_new(o.value, s.value,
                    u32_from_le_bytes(Slice(bytes, seq_start, seq_start + 4))),
                seq_start + 4)

----------------------------------------------------------------------------
(* BitcoinTransaction *)

BitcoinTransaction_new(version, inputs, lock_time) ==
    [version |-> version, inputs |-> inputs, lock_time |-> lock_time]

\* for input in &self.inputs { result.extend(input.to_bytes()) }: the
\* encodings of the inputs in order (split in halves to keep the evaluation
\* shallow)
RECURSIVE inputs_to_bytes(_)
inputs_to_bytes(inputs) ==
    IF Len(inputs) = 0 THEN <<>>
    ELSE IF Len(inputs) = 1 THEN TransactionInput_to_bytes(inputs[1])
    ELSE LET h == Len(inputs) \div 2 IN
         inputs_to_bytes(SubSeq(inputs, 1, h))
            \o inputs_to_bytes(SubSeq(inputs, h + 1, Len(inputs)))

BitcoinTransaction_to_bytes(self) ==
    u32_to_le_bytes(self.version)
        \o encode_compact_size(u64_from(Len(self.inputs)))
        \o inputs_to_bytes(self.inputs)
        \o u32_to_le_bytes(self.lock_time)

\* read_input that puts the input it read in front of the others
read_input_reversed(bytes, st, checks) ==
    IF st.tag # "Ok" THEN st
    ELSE LET r == TransactionInput_from_bytes(SliceFrom(bytes, st.offset), checks) IN
         IF r.tag # "Ok" THEN r
         ELSE [tag |-> "Ok",
               inputs |-> <<r.value>> \o st.inputs,
               offset |-> st.offset + r.consumed]

\* One iteration of for _ in 0..input_count { ... }.  st is the state of the
\* loop: the inputs read so far and the offset of the next one, or the error
\* (or panic) that ended from_bytes, after which nothing more is read.
read_input(bytes, st, checks) ==
    IF st.tag # "Ok" THEN st
    ELSE LET r == TransactionInput_from_bytes(SliceFrom(bytes, st.offset), checks) IN
         IF r.tag # "Ok" THEN r
         ELSE [tag |-> "Ok",
               inputs |-> Append(st.inputs, r.value),
               offset |-> st.offset + r.consumed]

\* n iterations of the loop, one after the other (split in halves to keep
\* the evaluation shallow)
RECURSIVE read_inputs(_, _, _, _)
read_inputs(bytes, n, st, checks) ==
    IF n = 0 THEN st
    ELSE IF n = 1 THEN read_input(bytes, st, checks)
    ELSE LET first == read_inputs(bytes, n \div 2, st, checks) IN
         IF first.tag # "Ok" THEN first
         ELSE read_inputs(bytes, n - (n \div 2), first, checks)

\* The loop runs input_count times unless an iteration fails.  An input takes
\* at least one byte, so an input_count above the buffer length fails within
\* Len(bytes) + 1 iterations.
BitcoinTransaction_from_bytes(bytes, checks) ==
    IF Len(bytes) < 4 THEN Err(InsufficientBytes)
    ELSE
    LET version == u32_from_le_bytes(Slice(bytes, 0, 4))
        c == decode_compact_size(SliceFrom(bytes, 4))
    IN  IF c.tag # "Ok" THEN c
        ELSE
        LET input_count == c.value
            iterations == IF u64_le(input_count, u64_from(Len(bytes)))
                          THEN usize_nat(input_count)
                          ELSE Len(bytes) + 1
            l == read_inputs(bytes, iterations,
                             [tag |-> "Ok", inputs |-> <<>>, offset |-> c.consumed + 4],
                             checks)
        IN
        IF l.tag # "Ok" THEN l
        ELSE IF Len(bytes) < l.offset + 4 THEN Err(InsufficientBytes)
        ELSE Ok(BitcoinTransaction_new(version, l.inputs,
                    u32_from_le_bytes(Slice(bytes, l.offset, l.offset + 4))),
                l.offset + 4)

----------------------------------------------------------------------------
(* The values and buffers the caller works with *)

ByteKinds == {"CompactSize", "OutPoint", "Script", "TransactionInput", "BitcoinTransaction"}

ToBytes(k, v) ==
    CASE k = "CompactSize" -> CompactSize_to_bytes(v)
      [] k = "OutPoint" -> OutPoint_to_bytes(v)
      [] k = "Script" -> Script_to_bytes(v)
      [] k = "TransactionInput" -> TransactionInput_to_bytes(v)
      [] k = "BitcoinTransaction" -> BitcoinTransaction_to_bytes(v)

IsPrefix(a, b) == Len(a) <= Len(b) /\ SubSeq(b, 1, Len(a)) = a

SeqsUpTo(S, n) == UNION {[1..k -> S] : k \in 0..n}

\* byte patterns that fill a buffer; i is the 1-based position
Patterns == {"zero", "ones", "ramp"}
PatternByte(p, i) == IF p = "zero" THEN 0 ELSE IF p = "ones" THEN 255 ELSE i % 256
Fill(p, n) == [i \in 1..n |-> PatternByte(p, i)]

\* limbs on both sides of the CompactSize boundaries 252|253 and 65535|65536
LimbSamples == {0, 1, 252, 253, 65535}
U64Samples == {<<a, b, c, d>> : a \in LimbSamples, b \in LimbSamples,
                                c \in LimbSamples, d \in LimbSamples}
\* 0, 0x04030201 and 0xFFFFFFFF
U32Samples == {<<0, 0>>, <<513, 1027>>, <<65535, 65535>>}

TxidSamples == {Fill(p, 32) : p \in Patterns}
OutPointSamples == {OutPoint_new(t, v) : t \in TxidSamples, v \in U32Samples}

ScriptBytes == {0, 253, 255}
ShortScripts == {Script_new(b) : b \in SeqsUpTo(ScriptBytes, MaxScriptLen)}
\* bodies whose length sits on the boundaries of the length prefix
LongScripts == {Script_new(Fill("ramp", n)) : n \in {252, 253, 254, 65535, 65536}}
ScriptSamples == ShortScripts \cup LongScripts

TransactionInputSamples ==
    {TransactionInput_new(o, s, q) :
        o \in {OutPoint_new(Fill("zero", 32), <<65535, 65535>>),
               OutPoint_new(Fill("ramp", 32), <<513, 1027>>)},
        s \in ShortScripts,
        q \in {<<65535, 65535>>, <<513, 1027>>}}

\* the inputs the enumerated transactions are made of
ListedInputs ==
    {TransactionInput_new(OutPoint_new(Fill("zero", 32), <<65535, 65535>>),
                          Script_new(<<>>), <<65535, 65535>>),
     TransactionInput_new(OutPoint_new(Fill("ramp", 32), <<513, 1027>>),
                          Script_new(<<253>>), <<0, 0>>),
     TransactionInput_new(OutPoint_new(Fill("ones", 32), <<0, 0>>),
                          Script_new(<<0, 255>>), <<513, 1027>>)}

\* a transaction of 253 inputs: the first input count that needs a 0xFD prefix
ManyInputs ==
    [i \in 1..253 |->
        TransactionInput_new(OutPoint_new(Fill("ramp", 32), <<i, 0>>),
                             Script_new(IF i % 2 = 0 THEN <<>> ELSE <<i>>),
                             <<65535, i>>)]

BitcoinTransactionSamples ==
    {BitcoinTransaction_new(h[1], i, h[2]) :
        h \in {<<<<1, 0>>, <<0, 0>>>>, <<<<513, 1027>>, <<65535, 65535>>>>},
        i \in SeqsUpTo(ListedInputs, MaxInputs) \cup {ManyInputs}}

\* length prefixes of every width, canonical or not, up to the largest u64
WideSamples == {<<a, b, b, b>> : a \in {0, 1, 3, 65526, 65527, 65535}, b \in {0, 65535}}
LengthPrefixes ==
    {<<f>> : f \in {0, 1, 2, 3, 252}}
        \cup {<<253>> \o u16_to_le_bytes(l) : l \in LimbSamples}
        \cup {<<254>> \o u32_to_le_bytes(<<a, b>>) : a \in LimbSamples, b \in LimbSamples}
        \cup {<<255>> \o u64_to_le_bytes(v) : v \in WideSamples}

\* buffers that did not come out of to_bytes
Received(k) ==
    CASE k = "CompactSize" ->
            {<<>>} \cup {<<f>> \o Fill(p, n) :
                            f \in 0..255, p \in Patterns, n \in 0..(8 + MaxExtra)}
      [] k = "OutPoint" ->
            {Fill(p, n) : p \in Patterns, n \in 0..(36 + MaxExtra)}
      [] k = "Script" ->
            {<<>>}
                \cup {<<f>> \o Fill(p, n) :
                        f \in {253, 254, 255}, p \in Patterns, n \in 0..(8 + MaxExtra)}
                \cup {l \o Fill(p, n) :
                        l \in LengthPrefixes, p \in Patterns,
                        n \in 0..(MaxScriptLen + MaxExtra + 1)}
      [] k = "TransactionInput" ->
            {Fill(p, n) : p \in Patterns, n \in 0..MaxRecvLen}
                \cup {Fill(p, 36) \o l \o Fill(q, n) :
                        p \in Patterns, l \in LengthPrefixes, q \in {"ramp"},
                        n \in 0..(MaxScriptLen + 4 + MaxExtra)}
      [] k = "BitcoinTransaction" ->
            {Fill(p, n) : p \in Patterns, n \in 0..MaxRecvLen}

ExtraBytes == {0, 255}
TextChars == {"0", "A", "f", "g"}

----------------------------------------------------------------------------
(* The state machine: a caller that encodes values, hands buffers around   *)
(* and decodes them.  While the caller holds nothing, kind is "none" and   *)
(* val, buf, text and res are empty.                                       *)

Init ==
    /\ kind = "none"
    /\ val = <<>>
    /\ buf = <<>>
    /\ text = <<>>
    /\ res = <<>>
    /\ overflow_checks \in BOOLEAN

Returns(r) ==
    /\ res = <<>>
    /\ res' = <<r>>
    /\ UNCHANGED <<kind, val, buf, text, overflow_checks>>

CompactSizeToBytes ==
    /\ kind = "none"
    /\ \E v \in U64Samples :
        /\ val' = <<CompactSize_new(v)>>
        /\ buf' = CompactSize_to_bytes(CompactSize_new(v))
    /\ kind' = "CompactSize"
    /\ UNCHANGED <<text, res, overflow_checks>>

OutPointToBytes ==
    /\ kind = "none"
    /\ \E v \in OutPointSamples :
        /\ val' = <<v>>
        /\ buf' = OutPoint_to_bytes(v)
    /\ kind' = "OutPoint"
    /\ UNCHANGED <<text, res, overflow_checks>>

ScriptToBytes ==
    /\ kind = "none"
    /\ \E v \in ScriptSamples :
        /\ val' = <<v>>
        /\ buf' = Script_to_bytes(v)
    /\ kind' = "Script"
    /\ UNCHANGED <<text, res, overflow_checks>>

TransactionInputToBytes ==
    /\ kind = "none"
    /\ \E v \in TransactionInputSamples :
        /\ val' = <<v>>
        /\ buf' = TransactionInput_to_bytes(v)
    /\ kind' = "TransactionInput"
    /\ UNCHANGED <<text, res, overflow_checks>>

BitcoinTransactionToBytes ==
    /\ kind = "none"
    /\ \E v \in BitcoinTransactionSamples :
        /\ val' = <<v>>
        /\ buf' = BitcoinTransaction_to_bytes(v)
    /\ kind' = "BitcoinTransaction"
    /\ UNCHANGED <<text, res, overflow_checks>>

\* the encoded value is followed by other data in the caller's buffer
AppendByte ==
    /\ kind \in ByteKinds
    /\ val # <<>>
    /\ res = <<>>
    /\ LET enc == ToBytes(kind, val[1]) IN
        /\ IsPrefix(enc, buf)
        /\ Len(buf) - Len(enc) < MaxExtra
    /\ \E b \in ExtraBytes : buf' = Append(buf, b)
    /\ UNCHANGED <<kind, val, text, res, overflow_checks>>

\* only the first n bytes of the encoded value arrive
Truncate ==
    /\ kind \in ByteKinds
    /\ val # <<>>
    /\ res = <<>>
    /\ Len(buf) <= MaxTruncLen
    /\ buf = ToBytes(kind, val[1])
    /\ \E n \in 0..(Len(buf) - 1) : buf' = SubSeq(buf, 1, n)
    /\ UNCHANGED <<kind, val, text, res, overflow_checks>>

\* the input count of an encoded transaction is overwritten
ForgeInputCount ==
    /\ kind = "BitcoinTransaction"
    /\ val # <<>>
    /\ res = <<>>
    /\ Len(val[1].inputs) <= MaxInputs
    /\ buf = BitcoinTransaction_to_bytes(val[1])
    /\ \E c \in 0..(MaxInputs + 1) :
        /\ c # Len(val[1].inputs)
        /\ buf' = [buf EXCEPT ![5] = c]
    /\ val' = <<>>
    /\ UNCHANGED <<kind, text, res, overflow_checks>>

\* a buffer arrives from outside
ReceiveBytes ==
    /\ kind = "none"
    /\ \E k \in ByteKinds : \E b \in Received(k) :
        /\ kind' = k
        /\ buf' = b
    /\ UNCHANGED <<val, text, res, overflow_checks>>

CompactSizeFromBytes ==
    /\ kind = "CompactSize"
    /\ Returns(CompactSize_from_bytes(buf))

OutPointFromBytes ==
    /\ kind = "OutPoint"
    /\ Returns(OutPoint_from_bytes(buf))

ScriptFromBytes ==
    /\ kind = "Script"
    /\ Returns(Script_from_bytes(buf, overflow_checks))

TransactionInputFromBytes ==
    /\ kind = "TransactionInput"
    /\ Returns(TransactionInput_from_bytes(buf, overflow_checks))

BitcoinTransactionFromBytes ==
    /\ kind = "BitcoinTransaction"
    /\ Returns(BitcoinTransaction_from_bytes(buf, overflow_checks))

TxidSerialize ==
    /\ kind = "none"
    /\ \E t \in TxidSamples :
        /\ val' = <<t>>
        /\ text' = Txid_serialize(t)
    /\ kind' = "Txid"
    /\ UNCHANGED <<buf, res, overflow_checks>>

\* a string from outside: n times the same character
ReceiveText ==
    /\ kind = "none"
    /\ \E n \in 0..(64 + MaxTextEdit) : \E c \in TextChars :
        text' = [i \in 1..n |-> c]
    /\ kind' = "Txid"
    /\ UNCHANGED <<val, buf, res, overflow_checks>>

\* one character of the text is replaced, or the last one is lost
EditText ==
    /\ kind = "Txid"
    /\ res = <<>>
    /\ val # <<>>
    /\ text = Txid_serialize(val[1])
    /\ \/ \E i \in {1, 2, 64} : \E c \in TextChars : text' = [text EXCEPT ![i] = c]
       \/ \E n \in (64 - MaxTextEdit)..63 : text' = SubSeq(text, 1, n)
    /\ UNCHANGED <<kind, val, buf, res, overflow_checks>>

TxidDeserialize ==
    /\ kind = "Txid"
    /\ Returns(Txid_deserialize(text))

\* the caller drops the value, the buffer and the result
Drop ==
    /\ res # <<>>
    /\ kind' = "none"
    /\ val' = <<>>
    /\ buf' = <<>>
    /\ text' = <<>>
    /\ res' = <<>>
    /\ UNCHANGED overflow_checks

Next ==
    \/ CompactSizeToBytes
    \/ OutPointToBytes
    \/ ScriptToBytes
    \/ TransactionInputToBytes
    \/ BitcoinTransactionToBytes
    \/ AppendByte
    \/ Truncate
    \/ ForgeInputCount
    \/ ReceiveBytes
    \/ CompactSizeFromBytes
    \/ OutPointFromBytes
    \/ ScriptFromBytes
    \/ TransactionInputFromBytes
    \/ BitcoinTransactionFromBytes
    \/ TxidSerialize
    \/ ReceiveText
    \/ EditText
    \/ TxidDeserialize
    \/ Drop

Spec == Init /\ [][Next]_vars

----------------------------------------------------------------------------
(* Properties.  They are stated on the state the caller is in once a       *)
(* from_bytes (or deserialize) has returned: buf is what it was given, res *)
(* what it returned, val the value the bytes were made from, if any.       *)

Returned == res # <<>>

\* the value of a little-endian byte string of at most 8 bytes, as u64 limbs
LittleEndian(b) ==
    [k \in 1..4 |->
        (IF 2 * k - 1 <= Len(b) THEN b[2 * k - 1] ELSE 0)
            + 256 * (IF 2 * k <= Len(b) THEN b[2 * k] ELSE 0)]

\* bytes is the shortest CompactSize form of the u64 v
ShortestForm(v, bytes) ==
    IF v[2] = 0 /\ v[3] = 0 /\ v[4] = 0 /\ v[1] <= 252
    THEN bytes = <<v[1]>>
    ELSE IF v[2] = 0 /\ v[3] = 0 /\ v[4] = 0
    THEN Len(bytes) = 3 /\ bytes[1] = 253 /\ LittleEndian(SubSeq(bytes, 2, 3)) = v
    ELSE IF v[3] = 0 /\ v[4] = 0
    THEN Len(bytes) = 5 /\ bytes[1] = 254 /\ LittleEndian(SubSeq(bytes, 2, 5)) = v
    ELSE Len(bytes) = 9 /\ bytes[1] = 255 /\ LittleEndian(SubSeq(bytes, 2, 9)) = v

\* the number of bytes a CompactSize with first byte f takes
WidthOf(f) == IF f <= 252 THEN 1 ELSE IF f = 253 THEN 3 ELSE IF f = 254 THEN 5 ELSE 9

\* C1: Round-trip.  For every constructed value v of CompactSize, OutPoint,
\* Script, TransactionInput and BitcoinTransaction, from_bytes(to_bytes(v))
\* succeeds and returns exactly (v, length(to_bytes(v))); the inputs of a
\* transaction come back in their order.
C1_RoundTrip ==
    (kind \in ByteKinds /\ val # <<>> /\ Returned /\ buf = ToBytes(kind, val[1]))
        => /\ res[1].tag = "Ok"
           /\ res[1].value = val[1]
           /\ res[1].consumed = Len(buf)

\* a transaction of two different inputs went through to_bytes and from_bytes
C1_Witness ==
    /\ kind = "BitcoinTransaction"
    /\ val # <<>>
    /\ Returned
    /\ buf = BitcoinTransaction_to_bytes(val[1])
    /\ Len(val[1].inputs) = 2
    /\ val[1].inputs[1] # val[1].inputs[2]
    /\ res[1].tag = "Ok"
    /\ res[1].value.inputs = val[1].inputs

\* C2: CompactSize::from_bytes returns Err(InsufficientBytes) for every
\* buffer that is empty, or whose first byte is 0xFD, 0xFE or 0xFF and that
\* holds fewer than 2, 4 or 8 bytes after it.
C2_TruncatedIsInsufficientBytes ==
    (kind = "CompactSize" /\ Returned
        /\ (Len(buf) = 0 \/ Len(buf) < WidthOf(buf[1])))
        => res[1] = Err(InsufficientBytes)

\* C3: CompactSize encoding always produces the shortest form of the value:
\* one byte up to 252, 0xFD and 2 little-endian bytes up to 65535, 0xFE and 4
\* up to 4294967295, 0xFF and 8 above; and so do the length prefix written by
\* Script::to_bytes and the input count written by
\* BitcoinTransaction::to_bytes.
C3_ShortestForm ==
    /\ (kind = "CompactSize" /\ val # <<>> /\ buf = CompactSize_to_bytes(val[1]))
        => ShortestForm(val[1].value, buf)
    /\ (kind = "Script" /\ val # <<>> /\ buf = Script_to_bytes(val[1]))
        => LET n == Len(val[1].bytes) IN
           /\ Len(buf) >= 1
           /\ Len(buf) = WidthOf(buf[1]) + n
           /\ ShortestForm(<<n % 65536, n \div 65536, 0, 0>>,
                           SubSeq(buf, 1, WidthOf(buf[1])))
           /\ SubSeq(buf, WidthOf(buf[1]) + 1, Len(buf)) = val[1].bytes
    /\ (kind = "BitcoinTransaction" /\ val # <<>>
            /\ buf = BitcoinTransaction_to_bytes(val[1]))
        => LET n == Len(val[1].inputs) IN
           /\ Len(buf) >= 5
           /\ ShortestForm(<<n % 65536, n \div 65536, 0, 0>>,
                           SubSeq(buf, 5, 4 + WidthOf(buf[5])))

\* 65536, the first value that needs the 0xFE form, was encoded in 5 bytes
C3_Witness ==
    /\ kind = "CompactSize"
    /\ val # <<>>
    /\ res = <<>>
    /\ val[1].value = <<0, 1, 0, 0>>
    /\ buf = <<254, 0, 0, 1, 0>>

\* C4: CompactSize decoding is determined by the first byte alone and never
\* rejects a buffer that holds enough bytes for its prefix: a first byte
\* b <= 0xFC yields (b, 1); 0xFD, 0xFE, 0xFF yield the little-endian value of
\* the next 2, 4, 8 bytes with 3, 5, 9 bytes consumed, whether or not the
\* encoding is the shortest one.  CompactSize::from_bytes and
\* decode_compact_size agree on it.
C4_PermissiveDecode ==
    (kind = "CompactSize" /\ Returned /\ Len(buf) >= 1 /\ Len(buf) >= WidthOf(buf[1]))
        => LET w == WidthOf(buf[1])
               v == IF w = 1 THEN <<buf[1], 0, 0, 0>>
                    ELSE LittleEndian(SubSeq(buf, 2, w))
               d == decode_compact_size(buf)
           IN  /\ res[1].tag = "Ok"
               /\ res[1].value.value = v
               /\ res[1].consumed = w
               /\ d.tag = "Ok"
               /\ d.value = v
               /\ d.consumed = w

\* the non-canonical [0xFD, 0x00, 0x00] was decoded to (0, 3)
C4_Witness ==
    /\ kind = "CompactSize"
    /\ buf = <<253, 0, 0>>
    /\ Returned
    /\ res[1].tag = "Ok"
    /\ res[1].value.value = <<0, 0, 0, 0>>
    /\ res[1].consumed = 3

\* C5: Script::from_bytes checks the declared length against the buffer.
\* For every buffer whose length prefix decodes to (declared_length,
\* prefix_length), whatever declared_length in 0..2^64-1, it returns
\* Err(InsufficientBytes) when the buffer holds fewer than prefix_length +
\* declared_length bytes, and otherwise the script made of the
\* declared_length bytes after the prefix, with prefix_length +
\* declared_length bytes consumed.
C5_DeclaredLengthChecked ==
    (kind = "Script" /\ Returned /\ decode_compact_size(buf).tag = "Ok")
        => LET d == decode_compact_size(buf)
               rest == Len(buf) - d.consumed
           IN  IF u64_lt(u64_from(rest), d.value)
               THEN res[1] = Err(InsufficientBytes)
               ELSE /\ res[1].tag = "Ok"
                    /\ res[1].value.bytes =
                            SubSeq(buf, d.consumed + 1, d.consumed + usize_nat(d.value))
                    /\ res[1].consumed = d.consumed + usize_nat(d.value)

\* The end of a complete TransactionInput that starts at offset o of bytes,
\* or -1 when the bytes from o on do not hold one, counted without any
\* machine arithmetic.
InputEnd(bytes, o) ==
    IF o < 0 \/ Len(bytes) - o < 37 THEN -1
    ELSE LET p == SubSeq(bytes, o + 37, Len(bytes))
             w == WidthOf(p[1])
         IN  IF Len(p) < w THEN -1
             ELSE LET declared == IF w = 1 THEN <<p[1], 0, 0, 0>>
                                  ELSE LittleEndian(SubSeq(p, 2, w))
                      room == Len(p) - w - 4
                  IN  IF room < 0 \/ declared[2] # 0 \/ declared[3] # 0
                            \/ declared[4] # 0 \/ declared[1] > room
                      THEN -1
                      ELSE o + 36 + w + declared[1] + 4

\* the end of n complete inputs in a row from offset o, or -1
RECURSIVE InputsEnd(_, _, _)
InputsEnd(bytes, n, o) ==
    IF n = 0 \/ o < 0 THEN o
    ELSE IF n = 1 THEN InputEnd(bytes, o)
    ELSE LET m == InputsEnd(bytes, n \div 2, o) IN
         IF m < 0 THEN m ELSE InputsEnd(bytes, n - (n \div 2), m)

\* C6: BitcoinTransaction::from_bytes never returns a silently truncated
\* transaction.  Whenever it succeeds, the transaction holds exactly
\* input_count inputs, input_count being the CompactSize decoded at offset 4;
\* and whenever the buffer holds fewer complete inputs than input_count
\* claims, it returns Err(InsufficientBytes).
C6_NoSilentTruncation ==
    (kind = "BitcoinTransaction" /\ Returned /\ Len(buf) >= 5
        /\ Len(buf) - 4 >= WidthOf(buf[5]))
        => LET w == WidthOf(buf[5])
               input_count == IF w = 1 THEN <<buf[5], 0, 0, 0>>
                              ELSE LittleEndian(SubSeq(buf, 6, 4 + w))
               claimed == IF input_count[2] = 0 /\ input_count[3] = 0 /\ input_count[4] = 0
                                /\ input_count[1] <= Len(buf)
                          THEN input_count[1] ELSE Len(buf) + 1
           IN  /\ res[1].tag = "Ok" =>
                    /\ Len(res[1].value.inputs) < 65536
                    /\ input_count = <<Len(res[1].value.inputs), 0, 0, 0>>
               /\ InputsEnd(buf, claimed, 4 + w) < 0 => res[1] = Err(InsufficientBytes)

\* C7: Binary decoding is total with a single error kind.  For every byte
\* buffer, TransactionInput::from_bytes and BitcoinTransaction::from_bytes
\* either return a value with a consumed-byte count that does not exceed the
\* buffer length, or return Err(InsufficientBytes); they never return
\* InvalidFormat and never abort.
C7_TotalDecoding ==
    (kind \in {"TransactionInput", "BitcoinTransaction"} /\ Returned)
        => \/ res[1].tag = "Ok" /\ res[1].consumed <= Len(buf)
           \/ res[1] = Err(InsufficientBytes)

\* C8: OutPoint::from_bytes depends only on the buffer length.  Fewer than 36
\* bytes give Err(InsufficientBytes); 36 or more give the identifier equal to
\* bytes 0..32, the index equal to bytes 32..36 read little-endian, and
\* exactly 36 bytes consumed.
C8_OutPointByLength ==
    (kind = "OutPoint" /\ Returned)
        => IF Len(buf) < 36
           THEN res[1] = Err(InsufficientBytes)
           ELSE /\ res[1].tag = "Ok"
                /\ res[1].value.txid = SubSeq(buf, 1, 32)
                /\ res[1].value.vout[1] = buf[33] + 256 * buf[34]
                /\ res[1].value.vout[2] = buf[35] + 256 * buf[36]
                /\ res[1].consumed = 36

\* a buffer of 37 different bytes was decoded: 36 were consumed
C8_Witness ==
    /\ kind = "OutPoint"
    /\ Returned
    /\ Len(buf) = 37
    /\ buf[33] = 33
    /\ res[1].tag = "Ok"
    /\ res[1].consumed = 36

LowerHexChars == {"0", "1", "2", "3", "4", "5", "6", "7",
                  "8", "9", "a", "b", "c", "d", "e", "f"}
AnyHexChars == LowerHexChars \cup {"A", "B", "C", "D", "E", "F"}

\* the text is not valid hexadecimal, or does not decode to exactly 32 bytes
BadTxidText(t) == Len(t) # 64 \/ \E i \in 1..Len(t) : t[i] \notin AnyHexChars

\* serializing a 32-byte identifier yields 64 lowercase hexadecimal
\* characters, and 64 '0' characters for 32 zero bytes
TxidTextForm ==
    (kind = "Txid" /\ val # <<>> /\ text = Txid_serialize(val[1]))
        => /\ Len(text) = 64
           /\ \A i \in 1..64 : text[i] \in LowerHexChars
           /\ (\A i \in 1..32 : val[1][i] = 0) => \A i \in 1..64 : text[i] = "0"
           /\ (\A i \in 1..32 : val[1][i] = 255) => \A i \in 1..64 : text[i] = "f"

\* C9 as stated: serializing any 32-byte identifier yields a 64-character
\* lowercase hexadecimal string, and deserializing a string that is not valid
\* hexadecimal or does not decode to exactly 32 bytes fails with the error
\* InvalidFormat.
C9_AsStated ==
    /\ TxidTextForm
    /\ (kind = "Txid" /\ Returned /\ BadTxidText(text))
        => res[1].tag = "Err" /\ res[1].error = InvalidFormat

\* C9, amended: serializing any 32-byte identifier yields a 64-character
\* lowercase hexadecimal string, and deserializing a string that is not valid
\* hexadecimal or does not decode to exactly 32 bytes fails with a custom
\* error of the deserializer (serde::de::Error::custom), never with
\* BitcoinError::InvalidFormat.
C9_TxidTextBoundary ==
    /\ TxidTextForm
    /\ (kind = "Txid" /\ Returned /\ BadTxidText(text))
        => res[1].tag = "Err" /\ res[1].error = "Custom"

\* a 63-character string of hexadecimal digits was rejected
C9_Witness ==
    /\ kind = "Txid"
    /\ Returned
    /\ Len(text) = 63
    /\ \A i \in 1..63 : text[i] \in LowerHexChars
    /\ res[1].tag = "Err"

\* C10: decoders consume a prefix and ignore what follows.  For every value v
\* of OutPoint, Script, TransactionInput or BitcoinTransaction and every byte
\* sequence s, from_bytes(to_bytes(v) ++ s) returns (v, length(to_bytes(v))).
C10_TrailingBytesIgnored ==
    (kind \in {"OutPoint", "Script", "TransactionInput", "BitcoinTransaction"}
        /\ val # <<>> /\ Returned /\ IsPrefix(ToBytes(kind, val[1]), buf))
        => /\ res[1].tag = "Ok"
           /\ res[1].value = val[1]
           /\ res[1].consumed = Len(ToBytes(kind, val[1]))

\* a transaction followed by two more bytes was decoded
C10_Witness ==
    /\ kind = "BitcoinTransaction"
    /\ val # <<>>
    /\ Returned
    /\ Len(val[1].inputs) >= 1
    /\ Len(buf) = Len(BitcoinTransaction_to_bytes(val[1])) + 2
    /\ IsPrefix(BitcoinTransaction_to_bytes(val[1]), buf)
    /\ res[1].tag = "Ok"
    /\ res[1].consumed = Len(buf) - 2

====
